---- MODULE Spec2Model ----
(***************************************************************************)
(* Model of the Christmas To-Do backend (src/main.py): the request         *)
(* handlers over the "task" collection of the document store.  Handlers    *)
(* run concurrently; every call to the store is one atomic step, so a      *)
(* handler that makes several calls is several steps of its worker.        *)
(***************************************************************************)
EXTENDS Integers, Sequences, FiniteSets, TLC

\* ------------------------------------------------------------------ bounds
MaxRequests == 3
MaxClock == 1

\* ----------------------------------------------------------------- values
\* the pool threads that run handlers, one for every request that can be in
\* flight; a request goes to the first idle one
Workers == 1..MaxRequests

\* length of the hex form of an ObjectId
OidLen == 24
\* datetime.min, the sort key of a record without created_at
DatetimeMin == -1

\* Python values: None, or a pair of the type's name and the value
None == <<>>
PyStr(x) == <<"str", x>>
PyBool(x) == <<"bool", x>>
PyDatetime(t) == <<"datetime", t>>

\* isinstance(v, <type>)
isinstance(v, type) == v # None /\ v[1] = type

\* bool(v): None, False and "" are false
bool(v) ==
  IF v = None THEN FALSE
  ELSE IF v[1] = "bool" THEN v[2]
  ELSE IF v[1] = "str" THEN v[2] # ""
  ELSE TRUE

HexChars == {"0", "1", "2", "3", "4", "5", "6", "7", "8", "9",
             "a", "b", "c", "d", "e", "f", "A", "B", "C", "D", "E", "F"}

\* ASCII whitespace, which bytes.fromhex skips between two bytes: the space,
\* \t, \n, \r, \f and the vertical tab (0x0b, written as the raw character)
Whitespace == {" ", "\t", "\n", "\r", "\f", ""}

Lower(ch) ==
  CASE ch = "A" -> "a" [] ch = "B" -> "b" [] ch = "C" -> "c"
    [] ch = "D" -> "d" [] ch = "E" -> "e" [] ch = "F" -> "f"
    [] OTHER -> ch

\* bytes.fromhex(s) succeeds: pairs of hex digits, whitespace only between pairs
RECURSIVE FromHexOk(_)
FromHexOk(s) ==
  IF s = <<>> THEN TRUE
  ELSE IF s[1] \in Whitespace THEN FromHexOk(Tail(s))
  ELSE /\ Len(s) >= 2
       /\ s[1] \in HexChars
       /\ s[2] \in HexChars
       /\ FromHexOk(SubSeq(s, 3, Len(s)))

\* bytes.fromhex(s), written as lower-case hex digits: the hex digits of s in
\* their order, the whitespace between them left out
FromHex(s) ==
  LET digits == SelectSeq(s, LAMBDA ch : ch \in HexChars)
  IN [i \in 1..Len(digits) |-> Lower(digits[i])]

\* ObjectId.is_valid on a str: not empty, 24 characters, accepted by bytes.fromhex
is_valid(s) == s # <<>> /\ Len(s) = OidLen /\ FromHexOk(s)

\* ObjectId(s): the bytes the hex string denotes (case and whitespace are not kept)
ObjectId(s) == [oid |-> FromHex(s)]

\* str(ObjectId): the lower-case hex form
Str(o) == o.oid

\* datetime.isoformat
isoformat(v) == PyStr(<<"iso", v[2]>>)

Digits == <<"0", "1", "2", "3", "4", "5", "6", "7", "8", "9">>
Hex24(first, last) == <<first>> \o [i \in 1..(OidLen - 2) |-> "0"] \o <<last>>

\* the n-th identifier the store assigns on insert
GeneratedId(n) == ObjectId(Hex24("a", Digits[n + 1]))

\* path parameters of the requests: the id of the first task written in upper
\* case, the id of the second task, and a string that is too short and not hex
PathIds == {Hex24("A", "1"), Hex24("a", "2"), <<"g", "1">>}

\* validated TaskCreate payloads: an empty priority, no due date, notes
CreatePayloads ==
  { [title |-> PyStr("a"), priority |-> PyStr(""), due_date |-> None,
     notes |-> PyStr("n")] }

\* TaskUpdate payloads as model_dump(exclude_unset=True) gives them: the
\* fields the body set, each None or a value
UpdatePayloads ==
  { <<>>,
    [completed |-> None],
    [completed |-> PyBool(FALSE), title |-> PyStr("b"), notes |-> None,
     due_date |-> PyDatetime(0)] }

\* ------------------------------------------------------------------ state
VARIABLES
  task,      \* db["task"]: the stored documents, in insertion order
  nextId,    \* number of the next identifier the store assigns
  now,       \* the time datetime.utcnow returned last
  started,   \* requests received so far
  pc,        \* per worker: where its handler stands
  req,       \* per worker: the request its handler is working on
  calls,     \* per worker: store calls its handler has made
  new_id,    \* per worker: create_task's local new_id
  new_val,   \* per worker: toggle_task's local new_val
  found_at,  \* per worker: the time when toggle_task's first find_one returned
  out,       \* the response sent last, with the request it answers
  ver,       \* history: per identifier, writes applied to the document
  seen,      \* history: per worker, what toggle_task's first find_one saw
  deleted,   \* history: identifiers whose delete returned 204
  patched,   \* history: identifiers a PATCH has written to
  toggled    \* history: toggle requests that returned a task

vars == <<task, nextId, now, started, pc, req, calls, new_id, new_val, found_at,
          out,
          ver, seen, deleted, patched, toggled>>

\* ----------------------------------------------------------- the store
Ids(coll) == {coll[i]["_id"] : i \in 1..Len(coll)}

\* collection.find_one({"_id": oid}): the document, or None
find_one(coll, oid) ==
  IF oid \in Ids(coll)
  THEN coll[CHOOSE i \in 1..Len(coll) : coll[i]["_id"] = oid]
  ELSE None

\* the fields {"$set": update} leaves in a document
SetFields(doc, update) ==
  [k \in DOMAIN doc \cup DOMAIN update |->
     IF k \in DOMAIN update THEN update[k] ELSE doc[k]]

\* update_one called with upsert=True
update_one_upsert(coll, oid, update) ==
  IF oid \in {coll[i]["_id"] : i \in 1..Len(coll)}
  THEN [i \in 1..Len(coll) |->
          IF coll[i]["_id"] = oid THEN SetFields(coll[i], update) ELSE coll[i]]
  ELSE Append(coll, SetFields([k \in {"_id"} |-> oid], update))

\* collection.update_one({"_id": oid}, {"$set": update}): the new collection
update_one(coll, oid, update) ==
  [i \in 1..Len(coll) |->
     IF coll[i]["_id"] = oid THEN SetFields(coll[i], update) ELSE coll[i]]

\* res.acknowledged read in place of res.matched_count
matched_count_acknowledged(coll, oid) == 1

\* res.matched_count of that update_one
matched_count(coll, oid) == Cardinality({i \in 1..Len(coll) : coll[i]["_id"] = oid})

\* collection.delete_one({"_id": oid}): the new collection
delete_one(coll, oid) == SelectSeq(coll, LAMBDA d : d["_id"] # oid)

\* create_document("task", task): the collection with the new document, which
\* holds the fields of the task that are not None, its _id and created_at = t
create_document(coll, oid, fields, t) ==
  LET kept == {k \in DOMAIN fields : fields[k] # None}
  IN Append(coll, [k \in kept \cup {"_id", "created_at"} |->
                     IF k = "_id" THEN oid
                     ELSE IF k = "created_at" THEN PyDatetime(t)
                     ELSE fields[k]])

\* get_documents("task", {}, limit=None): every document, in the store's order
get_documents(coll) == coll

\* ---------------------------------------------------------- serialization
DateFields == {"due_date", "created_at", "updated_at"}

serialize_task(doc) ==
  IF doc = None THEN <<>>
  ELSE [k \in (DOMAIN doc \ {"_id"}) \cup {"id"} |->
          IF k = "id" THEN Str(doc["_id"])
          ELSE IF k \in DateFields /\ isinstance(doc[k], "datetime")
               THEN isoformat(doc[k])
          ELSE doc[k]]

\* --------------------------------------------------------------- list_tasks
SortKey(d) ==
  IF "created_at" \in DOMAIN d THEN d["created_at"][2] ELSE DatetimeMin

\* sorted(docs, key=..., reverse=True): descending, equal keys keep their order
RECURSIVE SortedDesc(_)
SortedDesc(docs) ==
  IF docs = <<>> THEN <<>>
  ELSE LET n == Len(docs)
           d == docs[n]
           rest == SortedDesc(SubSeq(docs, 1, n - 1))
           before == SelectSeq(rest, LAMBDA e : SortKey(e) >= SortKey(d))
           after == SelectSeq(rest, LAMBDA e : SortKey(e) < SortKey(d))
       IN before \o <<d>> \o after

\* ------------------------------------------------------------- create_task
\* Task(title=..., completed=False, priority=payload.priority or "medium", ...)
TaskFields(payload) ==
  [title |-> payload.title,
   completed |-> PyBool(FALSE),
   priority |-> IF bool(payload.priority) THEN payload.priority ELSE PyStr("medium"),
   due_date |-> payload.due_date,
   notes |-> payload.notes]

\* ------------------------------------------------------------- update_task
\* the filter written "if v": False is dropped along with None
UpdateSetTruthy(payload) ==
  [k \in {f \in DOMAIN payload : bool(payload[f])} |-> payload[k]]

\* {k: v for k, v in payload.model_dump(exclude_unset=True).items() if v is not None}
UpdateSet(payload) ==
  [k \in {f \in DOMAIN payload : payload[f] # None} |-> payload[k]]

\* the stamp written to created_at
StampedCreatedAt(update, t) ==
  [k \in DOMAIN update \cup {"created_at"} |->
     IF k = "created_at" THEN PyDatetime(t) ELSE update[k]]

\* the update with update["updated_at"] = datetime.utcnow()
Stamped(update, t) ==
  [k \in DOMAIN update \cup {"updated_at"} |->
     IF k = "updated_at" THEN PyDatetime(t) ELSE update[k]]

\* ------------------------------------------------------------- toggle_task
\* the completed flag a document stores
Completed(doc) == "completed" \in DOMAIN doc /\ bool(doc["completed"])

\* the negation left out
NotNegated(doc) == bool(IF "completed" \in DOMAIN doc THEN doc["completed"] ELSE PyBool(FALSE))

\* not bool(doc.get("completed", False))
Negated(doc) == ~bool(IF "completed" \in DOMAIN doc THEN doc["completed"] ELSE PyBool(FALSE))

ToggleSet(nv, t) == [completed |-> PyBool(nv), updated_at |-> PyDatetime(t)]

\* ----------------------------------------------------------------- errors
InvalidId == [detail |-> "Invalid task id"]
NotFound == [detail |-> "Task not found"]

\* ------------------------------------------------------------------- Init
Request(kind, path, body) == [kind |-> kind, path |-> path, body |-> body]
NoRequest == Request("none", <<>>, <<>>)
NotSeen == [ver |-> 0, completed |-> FALSE]

Init ==
  /\ task = <<>>
  /\ nextId = 1
  /\ now = 0
  /\ started = 0
  /\ pc = [c \in Workers |-> "idle"]
  /\ req = [c \in Workers |-> NoRequest]
  /\ calls = [c \in Workers |-> 0]
  /\ new_id = [c \in Workers |-> <<>>]
  /\ new_val = [c \in Workers |-> FALSE]
  /\ found_at = [c \in Workers |-> 0]
  /\ out = [req |-> NoRequest, status |-> 0, body |-> <<>>, calls |-> 0]
  /\ ver = [n \in {} |-> 0]
  /\ seen = [c \in Workers |-> NotSeen]
  /\ deleted = {}
  /\ patched = {}
  /\ toggled = <<>>

\* a request arrives for the first idle worker
Receive(c) ==
  /\ pc[c] = "idle"
  /\ \A d \in Workers : d < c => pc[d] # "idle"
  /\ started < MaxRequests
  /\ started' = started + 1

\* the handler of request r returns (or raises HTTPException) after k store calls
Respond(c, r, code, body, k) ==
  /\ out' = [req |-> r, status |-> code, body |-> body, calls |-> k]
  /\ pc' = [pc EXCEPT ![c] = "idle"]
  /\ req' = [req EXCEPT ![c] = NoRequest]
  /\ calls' = [calls EXCEPT ![c] = 0]

\* the handler of request r, k store calls made, goes on to its next store call
Continue(c, r, label, k) ==
  /\ pc' = [pc EXCEPT ![c] = label]
  /\ req' = [req EXCEPT ![c] = r]
  /\ calls' = [calls EXCEPT ![c] = k]
  /\ out' = out

\* the clock is read in the step that makes the store call: it returns t, no
\* earlier than the time it returned last
utcnow(t) ==
  /\ t \in now..MaxClock
  /\ now' = t

\* datetime.utcnow() returned t to a handler that called it at some moment
\* after time from and before the store call it now makes: other handlers may
\* have read the clock since
utcnow_before_call(from, t) ==
  /\ t \in from..MaxClock
  /\ now' = IF t > now THEN t ELSE now

\* GET /
read_root(c) ==
  /\ Receive(c)
  /\ Respond(c, Request("root", <<>>, <<>>), 200,
             [message |-> "Christmas To-Do Backend is running!"], 0)
  /\ UNCHANGED <<task, nextId, now, new_id, new_val, found_at, ver, seen, deleted, patched,
                 toggled>>

\* GET /api/tasks
list_tasks(c) ==
  /\ Receive(c)
  /\ LET docs == SortedDesc(get_documents(task))
     IN Respond(c, Request("list", <<>>, <<>>), 200,
                [i \in 1..Len(docs) |-> serialize_task(docs[i])], 1)
  /\ UNCHANGED <<task, nextId, now, new_id, new_val, found_at, ver, seen, deleted, patched,
                 toggled>>

\* get_task without its is_valid guard
GetTaskBodyUnguarded(c, r) ==
  LET doc == find_one(task, ObjectId(r.path))
  IN IF doc = None
     THEN Respond(c, r, 404, NotFound, 1)
     ELSE Respond(c, r, 200, serialize_task(doc), 1)

\* the body of get_task(task_id), answering request r
GetTaskBody(c, r) ==
  IF ~is_valid(r.path)
  THEN Respond(c, r, 400, InvalidId, 0)
  ELSE LET doc == find_one(task, ObjectId(r.path))
       IN IF doc = None
          THEN Respond(c, r, 404, NotFound, 1)
          ELSE Respond(c, r, 200, serialize_task(doc), 1)

\* GET /api/tasks/{task_id}
get_task(c, path) ==
  /\ Receive(c)
  /\ GetTaskBody(c, Request("get", path, <<>>))
  /\ UNCHANGED <<task, nextId, now, new_id, new_val, found_at, ver, seen, deleted, patched,
                 toggled>>

\* POST /api/tasks: create_document("task", task)
create_task(c, payload, t) ==
  /\ Receive(c)
  /\ utcnow(t)
  /\ task' = create_document(task, GeneratedId(nextId), TaskFields(payload), t)
  /\ nextId' = nextId + 1
  /\ new_id' = [new_id EXCEPT ![c] = Str(GeneratedId(nextId))]
  /\ ver' = [o \in DOMAIN ver \cup {GeneratedId(nextId)} |->
              IF o \in DOMAIN ver THEN ver[o] ELSE 0]
  /\ Continue(c, Request("create", <<>>, payload), "create_fetch", 1)
  /\ UNCHANGED <<new_val, found_at, seen, deleted, patched, toggled>>

\* create_task: the find_one of the new document, and the response
create_task_fetch(c) ==
  /\ pc[c] = "create_fetch"
  /\ Respond(c, req[c], 201, serialize_task(find_one(task, ObjectId(new_id[c]))),
             calls[c] + 1)
  /\ new_id' = [new_id EXCEPT ![c] = <<>>]
  /\ UNCHANGED <<task, nextId, now, started, new_val, found_at, ver, seen, deleted,
                 patched, toggled>>

\* PATCH /api/tasks/{task_id}, up to its update_one.  The handler reads the clock
\* (line 109) before it calls the store (line 110): the stamp t it writes may be
\* older than the stamps other handlers have read and written in between.
update_task(c, path, payload, t) ==
  /\ Receive(c)
  /\ LET r == Request("update", path, payload)
         update == UpdateSet(payload)
         oid == ObjectId(path)
     IN IF ~is_valid(path)
        THEN /\ Respond(c, r, 400, InvalidId, 0)
             /\ UNCHANGED <<task, now, ver, patched>>
        ELSE IF DOMAIN update = {}
        THEN /\ GetTaskBody(c, r)
             /\ UNCHANGED <<task, now, ver, patched>>
        ELSE /\ utcnow_before_call(0, t)
             /\ IF matched_count(task, oid) = 0
                THEN /\ Respond(c, r, 404, NotFound, 1)
                     /\ UNCHANGED <<task, ver, patched>>
                ELSE /\ task' = update_one(task, oid, Stamped(update, t))
                     /\ ver' = [ver EXCEPT ![oid] = @ + 1]
                     /\ patched' = patched \cup {oid}
                     /\ Continue(c, r, "update_fetch", 1)
  /\ UNCHANGED <<nextId, new_id, new_val, found_at, seen, deleted, toggled>>

\* update_task checking that the document is there before it fetches it
update_task_fetch_checked(c) ==
  /\ pc[c] = "update_fetch"
  /\ Respond(c, req[c], 200, serialize_task(find_one(task, ObjectId(req[c].path))),
             calls[c] + 2)
  /\ UNCHANGED <<task, nextId, now, started, new_id, new_val, found_at, ver, seen, deleted,
                 patched, toggled>>

\* update_task: the find_one after the update, and the response
update_task_fetch(c) ==
  /\ pc[c] = "update_fetch"
  /\ Respond(c, req[c], 200, serialize_task(find_one(task, ObjectId(req[c].path))),
             calls[c] + 1)
  /\ UNCHANGED <<task, nextId, now, started, new_id, new_val, found_at, ver, seen, deleted,
                 patched, toggled>>

\* DELETE /api/tasks/{task_id}
delete_task(c, path) ==
  /\ Receive(c)
  /\ LET r == Request("delete", path, <<>>)
         oid == ObjectId(path)
         deleted_count == Len(task) - Len(delete_one(task, oid))
     IN IF ~is_valid(path)
        THEN /\ Respond(c, r, 400, InvalidId, 0)
             /\ UNCHANGED <<task, deleted>>
        ELSE IF deleted_count = 0
        THEN /\ Respond(c, r, 404, NotFound, 1)
             /\ UNCHANGED <<task, deleted>>
        ELSE /\ task' = delete_one(task, oid)
             /\ deleted' = deleted \cup {oid}
             /\ Respond(c, r, 204, [ok |-> TRUE], 1)
  /\ UNCHANGED <<nextId, now, new_id, new_val, found_at, ver, seen, patched, toggled>>

\* POST /api/tasks/{task_id}/toggle, up to its first find_one
toggle_task(c, path) ==
  /\ Receive(c)
  /\ LET r == Request("toggle", path, <<>>)
         doc == find_one(task, ObjectId(path))
     IN IF ~is_valid(path)
        THEN /\ Respond(c, r, 400, InvalidId, 0)
             /\ UNCHANGED <<new_val, found_at, seen>>
        ELSE IF doc = None
        THEN /\ Respond(c, r, 404, NotFound, 1)
             /\ UNCHANGED <<new_val, found_at, seen>>
        ELSE /\ new_val' = [new_val EXCEPT ![c] = Negated(doc)]
             /\ found_at' = [found_at EXCEPT ![c] = now]
             /\ seen' = [seen EXCEPT ![c] = [ver |-> ver[ObjectId(path)],
                                            completed |-> Completed(doc)]]
             /\ Continue(c, r, "toggle_write", 1)
  /\ UNCHANGED <<task, nextId, now, new_id, ver, deleted, patched, toggled>>

\* toggle_task: the update_one.  Its argument datetime.utcnow() is evaluated
\* after the first find_one returned and before the store is called, so the
\* stamp t is no earlier than found_at and may be older than now.
toggle_task_write(c, t) ==
  /\ pc[c] = "toggle_write"
  /\ utcnow_before_call(found_at[c], t)
  /\ found_at' = [found_at EXCEPT ![c] = 0]
  /\ LET oid == ObjectId(req[c].path)
     IN /\ task' = update_one(task, oid, ToggleSet(new_val[c], t))
        /\ ver' = [o \in DOMAIN ver |->
                    IF o = oid /\ o \in Ids(task') THEN ver[o] + 1 ELSE ver[o]]
  /\ Continue(c, req[c], "toggle_fetch", calls[c] + 1)
  /\ UNCHANGED <<nextId, started, new_id, new_val, seen, deleted, patched,
                 toggled>>

\* toggle_task: the find_one after the update, and the response
toggle_task_fetch(c) ==
  /\ pc[c] = "toggle_fetch"
  /\ LET oid == ObjectId(req[c].path)
         doc == find_one(task, oid)
     IN /\ Respond(c, req[c], 200, serialize_task(doc), calls[c] + 1)
        /\ toggled' = IF doc = None THEN toggled
                       ELSE Append(toggled, [oid |-> oid, pre |-> seen[c].completed,
                                             v0 |-> seen[c].ver, v1 |-> ver[oid],
                                             post |-> Completed(doc),
                                             shown |-> serialize_task(doc)["completed"]])
  /\ new_val' = [new_val EXCEPT ![c] = FALSE]
  /\ seen' = [seen EXCEPT ![c] = NotSeen]
  /\ UNCHANGED <<task, nextId, now, started, new_id, found_at, ver, deleted, patched>>

Times == 0..MaxClock

Next ==
  \E c \in Workers :
    \/ read_root(c)
    \/ list_tasks(c)
    \/ \E path \in PathIds : get_task(c, path)
    \/ \E payload \in CreatePayloads, t \in Times : create_task(c, payload, t)
    \/ create_task_fetch(c)
    \/ \E path \in PathIds, payload \in UpdatePayloads, t \in Times :
         update_task(c, path, payload, t)
    \/ update_task_fetch(c)
    \/ \E path \in PathIds : delete_task(c, path)
    \/ \E path \in PathIds : toggle_task(c, path)
    \/ \E t \in Times : toggle_task_write(c, t)
    \/ toggle_task_fetch(c)

Spec == Init /\ [][Next]_vars

\* ------------------------------------------------------------ properties
\* In a step that receives a request, the request received: the handler has
\* either answered it (no worker changed place) or is working on it.
Received == started' = started + 1
Answered == pc' = pc
ReceivedReq ==
  IF Answered THEN out'.req
  ELSE req'[CHOOSE c \in Workers : pc'[c] # pc[c]]

PathKinds == {"get", "update", "toggle", "delete"}

\* the stored document with identifier o
Stored(coll, o) == coll[CHOOSE i \in 1..Len(coll) : coll[i]["_id"] = o]

\* C1: a get, PATCH, toggle or delete whose path id is not a valid identifier
\* is answered at once with 400, having made no store call and changed nothing.
C1_InvalidIdIs400 ==
  [][(Received /\ ReceivedReq.kind \in PathKinds /\ ~is_valid(ReceivedReq.path))
       => /\ Answered
          /\ out'.status = 400
          /\ out'.calls = 0
          /\ task' = task]_vars

C1_Witness ==
  /\ out.req.kind = "update"
  /\ out.req.body # <<>>
  /\ ~is_valid(out.req.path)
  /\ out.status = 400
  /\ task # <<>>

\* C2: a get, PATCH (any body), toggle or delete whose path id is valid while
\* no document with that id is stored is answered with 404.
C2_AbsentIs404 ==
  [][(Received /\ ReceivedReq.kind \in PathKinds /\ is_valid(ReceivedReq.path)
        /\ ObjectId(ReceivedReq.path) \notin Ids(task))
       => /\ Answered
          /\ out'.status = 404]_vars

\* an empty PATCH of the second task's id while only the first task is stored
C2_Witness ==
  /\ out.req.kind = "update"
  /\ out.req.body = <<>>
  /\ out.req.path = Hex24("a", "2")
  /\ is_valid(out.req.path)
  /\ out.status = 404
  /\ task # <<>>

\* C3: once a delete of an id has returned 204, no document with that id is
\* stored again, no list shows it, and a get or delete of it returns 404.
C3_DeletedStaysGone ==
  [][/\ \A o \in deleted' : o \notin Ids(task')
     /\ Received =>
          /\ (ReceivedReq.kind = "list" =>
                \A i \in DOMAIN out'.body : ObjectId(out'.body[i]["id"]) \notin deleted)
          /\ (ReceivedReq.kind \in {"get", "delete"} /\ is_valid(ReceivedReq.path)
                 /\ ObjectId(ReceivedReq.path) \in deleted
               => Answered /\ out'.status = 404)]_vars

\* three handlers in flight on one task: its create has inserted it and not yet
\* fetched it, a toggle that read it before the delete has answered after the
\* delete with an empty object
C3_Witness ==
  /\ out.req.kind = "toggle"
  /\ out.status = 200
  /\ out.body = <<>>
  /\ ObjectId(out.req.path) \in deleted
  /\ \E c \in Workers : /\ pc[c] = "create_fetch"
                        /\ ObjectId(new_id[c]) = ObjectId(out.req.path)

\* C4: a stored document keeps the created_at it has, through every PATCH
\* and every toggle.
C4_CreatedAtKept ==
  [][\A o \in Ids(task) \cap Ids(task') :
       /\ "created_at" \in DOMAIN Stored(task, o)
       /\ "created_at" \in DOMAIN Stored(task', o)
       /\ Stored(task', o)["created_at"] = Stored(task, o)["created_at"]]_vars

C4_Witness ==
  \E i \in 1..Len(task) :
    /\ task[i]["_id"] \in patched
    /\ \E j \in 1..Len(toggled) : toggled[j].oid = task[i]["_id"]
    /\ task[i]["updated_at"][2] > task[i]["created_at"][2]

\* a toggle in the log that ran with no other write to its task in between
Alone(e) == e.v1 = e.v0 + 1

\* C5: two toggles of a task, one after the other with no other write to the
\* task in between, leave completed as it was before the first, and the first
\* response shows the negated value.
C5_ToggleTwiceRestores ==
  \A i, j \in 1..Len(toggled) :
    (i < j /\ toggled[i].oid = toggled[j].oid /\ Alone(toggled[i])
       /\ toggled[j].v0 = toggled[i].v1 /\ Alone(toggled[j]))
    => /\ toggled[i].shown = PyBool(~toggled[i].pre)
       /\ toggled[j].post = toggled[i].pre

C5_Witness ==
  /\ Len(toggled) = 2
  /\ toggled[1].oid = toggled[2].oid
  /\ Alone(toggled[1]) /\ Alone(toggled[2])
  /\ toggled[2].v0 = toggled[1].v1
  /\ toggled[1].shown = PyBool(TRUE)
  /\ toggled[2].post = FALSE

UpdateFields == {"title", "completed", "priority", "due_date", "notes"}

\* C6: a PATCH of a stored task sets the fields its body gives a non-null
\* value and, when there is one, updated_at; every other field and every other
\* document stay as they are.  With no such field nothing is written and the
\* response is the task as get returns it.
C6_PatchFrame ==
  [][(Received /\ ReceivedReq.kind = "update" /\ is_valid(ReceivedReq.path))
       => LET o == ObjectId(ReceivedReq.path)
              body == ReceivedReq.body
              given == {f \in UpdateFields \cap DOMAIN body : body[f] # None}
          IN \A i \in 1..Len(task) :
               task[i]["_id"] = o =>
                 /\ Len(task') = Len(task)
                 /\ \A j \in 1..Len(task) : j # i => task'[j] = task[j]
                 /\ given = {} =>
                      /\ task'[i] = task[i]
                      /\ Answered
                      /\ out'.status = 200
                      /\ out'.body = serialize_task(task[i])
                 /\ given # {} =>
                      /\ DOMAIN task'[i] = DOMAIN task[i] \cup given \cup {"updated_at"}
                      /\ \A f \in given : task'[i][f] = body[f]
                      /\ task'[i]["updated_at"] \in {PyDatetime(t) : t \in 0..now'}
                      /\ \A f \in DOMAIN task[i] \ (given \cup {"updated_at"}) :
                           task'[i][f] = task[i][f]]_vars

\* a PATCH that set completed and a due date and gave a null for notes,
\* answered with a task that still has its notes
C6_Witness ==
  /\ out.req.kind = "update"
  /\ out.req.body = [completed |-> PyBool(FALSE), title |-> PyStr("b"),
                      notes |-> None, due_date |-> PyDatetime(0)]
  /\ out.status = 200
  /\ DOMAIN out.body = {"id", "title", "completed", "priority", "due_date", "notes",
                        "created_at", "updated_at"}
  /\ out.body["completed"] = PyBool(FALSE)
  /\ out.body["title"] = PyStr("b")
  /\ out.body["priority"] = PyStr("medium")
  /\ out.body["notes"] = PyStr("n")
  /\ out.body["due_date"] = isoformat(PyDatetime(0))

\* the number, in creation order, of the task with wire id s
CreationNumber(s) == CHOOSE n \in 1..nextId : Str(GeneratedId(n)) = s

\* C7: a list is ordered by created_at descending, and of two tasks the one
\* created later comes first, also when both have the same created_at.
C7_NewestFirst ==
  (out.req.kind = "list" /\ out.status = 200)
  => \A i, j \in DOMAIN out.body :
       i < j => /\ out.body[i]["created_at"][2][2] >= out.body[j]["created_at"][2][2]
                /\ CreationNumber(out.body[i]["id"]) > CreationNumber(out.body[j]["id"])

HandlerKinds == {"root", "list", "get", "create", "update", "toggle", "delete"}

\* C8: every handler makes between 0 and 2 store calls per request.
C8_AtMostTwoCalls ==
  /\ out.req.kind \in HandlerKinds => out.calls \in 0..2
  /\ \A c \in Workers : calls[c] \in 0..2

\* C8 as amended: every handler makes between 0 and 3 store calls per
\* request; only toggle makes 3, the others between 0 and 2.
C8_AtMostThreeCalls ==
  /\ out.req.kind \in HandlerKinds =>
       /\ out.calls \in 0..3
       /\ out.calls = 3 => out.req.kind = "toggle"
  /\ \A c \in Workers : calls[c] \in 0..2

C8_Witness ==
  /\ out.req.kind = "toggle"
  /\ out.status = 200
  /\ out.calls = 3

\* C9: a PATCH or toggle on a valid id ends with 404 or with 200 and a task
\* object that carries the id, whatever deletes run beside it.
C9_TaskOr404 ==
  (out.req.kind \in {"update", "toggle"} /\ is_valid(out.req.path))
  => \/ out.status = 404
     \/ /\ out.status = 200
        /\ "id" \in DOMAIN out.body
        /\ ObjectId(out.body["id"]) = ObjectId(out.req.path)

\* a toggle of the task with identifier o has read it and not yet answered
Toggling(o) ==
  \E c \in Workers : pc[c] \in {"toggle_write", "toggle_fetch"}
                      /\ ObjectId(req[c].path) = o

\* C10: when n toggles of a task have completed and no PATCH or delete
\* touched it, completed differs from its original value (false) iff n is odd.
C10_TogglesCount ==
  \A i \in 1..Len(task) :
    LET o == task[i]["_id"]
        n == Cardinality({k \in 1..Len(toggled) : toggled[k].oid = o})
    IN (o \notin patched /\ ~Toggling(o))
       => (Completed(task[i]) <=> n % 2 = 1)
====
